---- MODULE Spec2Model ----
(***************************************************************************)
(* A model of src/models/gcn.py: the GIB graph-convolution layer GCNConv   *)
(* (a subclass of torch_geometric's GCNConv) and the two-layer GIBGCN.     *)
(*                                                                         *)
(* Numbers.  The linear part of the layer (x @ weight, neighbour sum,      *)
(* bias, symmetric degree normalisation) is computed exactly.  A number is *)
(* a finite set of pairs <<d, n>> with n # 0 and at most one pair per d,   *)
(* standing for the sum of n / sqrt(d): integers are the pairs with d = 1, *)
(* and gcn_norm's factor deg^-1/2 multiplies d.                            *)
(*                                                                         *)
(* Tensors.  A tensor is [shape |-> <<...>>, data |-> ...]: data is a      *)
(* sequence of rows for a matrix, a sequence of elements for a vector, one *)
(* element for a 0-dim tensor.  shape follows torch's rules.               *)
(*                                                                         *)
(* Real functions.  softplus, Normal.log_prob, kl_divergence, mean and std *)
(* are kept as terms: a record that names the function and holds its       *)
(* arguments.  Equal terms are equal reals.                                *)
(***************************************************************************)
EXTENDS Integers, Sequences, FiniteSets, TLC

VARIABLES layer, model, call, ret

vars == <<layer, model, call, ret>>

(***************************************************************************)
(* Bounds of the model.                                                    *)
(***************************************************************************)
MaxNodes == 2
MaxChannels == 3
MaxSample == 2

(***************************************************************************)
(* Exact numbers: sets of <<d, n>>, value = sum of n / sqrt(d).            *)
(***************************************************************************)
NumOf(i) == IF i = 0 THEN {} ELSE {<<1, i>>}

Coef(a, d) == IF \E p \in a : p[1] = d THEN (CHOOSE p \in a : p[1] = d)[2] ELSE 0

NAdd(a, b) ==
    LET ds == {p[1] : p \in a \cup b}
    IN  {<<d, Coef(a, d) + Coef(b, d)>> : d \in {e \in ds : Coef(a, e) + Coef(b, e) # 0}}

NScale(a, k) == IF k = 0 THEN {} ELSE {<<p[1], p[2] * k>> : p \in a}

NDivSqrt(a, d) == {<<p[1] * d, p[2]>> : p \in a}

\* The sum of the first n numbers of the sequence s.
RECURSIVE NSum(_, _)
NSum(s, n) == IF n = 0 THEN {} ELSE NAdd(NSum(s, n - 1), s[n])

\* v itself.  TLC keeps a function constructor unevaluated and would recompute
\* an element at every use; the comparison makes it compute the value once.
Evaluated(v) == IF v = v THEN v ELSE v

\* Body applied to the value of e: a local assignment v = e followed by Body,
\* with e computed once.
Bind(e, Body(_)) == CHOOSE r \in {Body(v) : v \in {e}} : TRUE

\* A tensor of the given shape and data.
Tensor(shape, data) == Evaluated([shape |-> shape, data |-> data])

Rows(t) == t.shape[1]

Cols(t) == t.shape[2]


(***************************************************************************)
(* Parameters and attributes.                                              *)
(***************************************************************************)
NoBias == [present |-> FALSE, data |-> <<>>]

Unset == [set |-> FALSE]

\* Parameter(torch.Tensor(in_channels, out_channels)): an in x out matrix.  The
\* model fixes one value for it (the code leaves the choice to reset_parameters
\* and to the optimizer): distinct columns, no zero.
WeightParameter(in_channels, out_channels) ==
    [i \in 1..in_channels |-> [j \in 1..out_channels |-> i + j - 1]]

\* Parameter(torch.Tensor(out_channels)) when bias is true, None otherwise.
\* As for the weight the model fixes one value, that of a layer whose
\* parameters have been trained or loaded: no zero (reset_parameters, line 67,
\* is the inherited one and starts the bias at zero, where adding it any number
\* of times shows nothing).
BiasParameter(bias, out_channels) ==
    IF bias
    THEN [present |-> TRUE, data |-> [j \in 1..out_channels |-> j]]
    ELSE NoBias

\* super().__init__(in_channels, out_channels, aggr="add", normalize=False):
\* the attributes the inherited layer keeps (its own defaults for the rest).
SuperInit(in_channels, out_channels) ==
    [in_channels |-> in_channels, out_channels |-> out_channels, aggr |-> "add",
     normalize |-> FALSE, improved |-> FALSE, cached |-> FALSE,
     add_self_loops |-> TRUE]

\* GCNConv.__init__.  a: the constructor's arguments.  The assignments after super().__init__ overwrite its attributes.
GCNConv_init(a) ==
    [SuperInit(a.in_channels, a.out_channels) EXCEPT
        !.improved = a.improved, !.cached = a.cached, !.normalize = a.normalize]
    @@ [reparam_mode |-> a.reparam_mode, prior_mode |-> a.prior_mode,
        sample_size |-> a.sample_size, val_use_mean |-> FALSE,
        weight |-> WeightParameter(a.in_channels, a.out_channels),
        bias |-> BiasParameter(a.bias, a.out_channels),
        dist |-> Unset, feature_prior |-> Unset, Z_std |-> Unset]

(***************************************************************************)
(* The inherited forward: linear map, optional gcn_norm, propagate with    *)
(* additive aggregation and the layer's update, then the bias.             *)
(***************************************************************************)
\* x @ weight for an N x F tensor of numbers and an F x C integer matrix.
MatMul(x, weight) ==
    Tensor(<<Rows(x), Len(weight[1])>>,
           [n \in 1..Rows(x) |-> [j \in 1..Len(weight[1]) |->
                NSum([k \in 1..Cols(x) |-> NScale(x.data[n][k], weight[k][j])], Cols(x))]])

\* The edges as (source r, target c, weight w, d): the message along an edge
\* is x_r * w / sqrt(d).  edge_weight None counts as weight 1.
RawEdges(edge_index, edge_weight) ==
    Evaluated([k \in 1..Len(edge_index) |->
        [r |-> edge_index[k][1], c |-> edge_index[k][2],
         w |-> IF edge_weight.none THEN 1 ELSE edge_weight.w[k], d |-> 1]])

\* add_remaining_self_loops: one loop of weight fill for each node without one.
RECURSIVE SelfLoops(_, _, _, _)
SelfLoops(edges, i, N, fill) ==
    IF i > N THEN <<>>
    ELSE (IF \E k \in 1..Len(edges) : edges[k].r = i /\ edges[k].c = i
          THEN <<>>
          ELSE <<[r |-> i, c |-> i, w |-> fill, d |-> 1]>>)
         \o SelfLoops(edges, i + 1, N, fill)

\* The weighted in-degree of node i over the first n edges.
RECURSIVE Degree(_, _, _)
Degree(edges, n, i) ==
    IF n = 0 THEN 0
    ELSE (IF edges[n].c = i THEN edges[n].w ELSE 0) + Degree(edges, n - 1, i)

\* gcn_norm: self loops, then w / sqrt(deg[r] * deg[c]), deg the weighted in-degree.
gcn_norm(edges, N, improved, add_self_loops) ==
    Bind(IF add_self_loops
         THEN edges \o SelfLoops(edges, 1, N, IF improved THEN 2 ELSE 1)
         ELSE edges, LAMBDA all :
    Bind(Evaluated([i \in 1..N |-> Degree(all, Len(all), i)]), LAMBDA deg :
    Evaluated([k \in 1..Len(all) |-> [all[k] EXCEPT !.d = deg[all[k].r] * deg[all[k].c]]])))

\* message: x_r * w / sqrt(d) along the edge e, column j.
message(e, xw, j) == NDivSqrt(NScale(xw.data[e.r][j], e.w), e.d)

\* aggr="add": the sum of the messages of the edges into node i, column j.
Aggregate(edges, xw, i, j) ==
    NSum([k \in 1..Len(edges) |->
            IF edges[k].c = i THEN message(edges[k], xw, j) ELSE {}], Len(edges))

\* t + bias, the bias added to every row.
AddBias(t, bias) ==
    Tensor(t.shape, [n \in 1..Rows(t) |-> [j \in 1..Cols(t) |->
                        NAdd(t.data[n][j], NumOf(bias[j]))]])

\* GCNConv.update
update(conv, aggr_out) ==
    IF conv.bias.present THEN AddBias(aggr_out, conv.bias.data) ELSE aggr_out

\* propagate: message, aggregate, then the layer's update.
propagate(conv, edges, xw) ==
    Bind(Tensor(xw.shape, [i \in 1..Rows(xw) |-> [j \in 1..Cols(xw) |->
                              Aggregate(edges, xw, i, j)]]), LAMBDA aggr_out :
    update(conv, aggr_out))

\* super().forward(x, edge_index, edge_weight)
SuperForward(conv, x, edge_index, edge_weight) ==
    Bind(RawEdges(edge_index, edge_weight), LAMBDA raw :
    Bind(IF conv.normalize
         THEN gcn_norm(raw, Rows(x), conv.improved, conv.add_self_loops)
         ELSE raw, LAMBDA edges :
    Bind(MatMul(x, conv.weight), LAMBDA xw :
    Bind(propagate(conv, edges, xw), LAMBDA out :
    IF conv.bias.present THEN AddBias(out, conv.bias.data) ELSE out))))

(***************************************************************************)
(* GCNConv.reparameterize and the distributions.                           *)
(***************************************************************************)
\* A variant of SplitSize: the half rounded down.
SplitFloor(channels) == channels \div 2

\* math.ceil(mean_logit.size(-1) / 2)
SplitSize(channels) == (channels + 1) \div 2

\* The columns of mean_logit[:, :size] and of mean_logit[:, -size:], in order.
MeanColumns(channels) == [k \in 1..SplitSize(channels) |-> k]

StdColumns(channels) == [k \in 1..SplitSize(channels) |-> channels - SplitSize(channels) + k]

\* F.softplus(v, beta=1) + 1e-10
Softplus(v) == [fn |-> "softplus_plus_1e-10", beta |-> 1, arg |-> v]

\* t[:, columns]
Slice(t, columns) ==
    Tensor(<<Rows(t), Len(columns)>>,
           [n \in 1..Rows(t) |-> [k \in 1..Len(columns) |-> t.data[n][columns[k]]]])

\* Normal(loc, scale); batch shape as torch broadcasts loc and scale (here
\* they always have the same shape).
Normal(loc, scale) == [set |-> TRUE, loc |-> loc, scale |-> scale]

\* GCNConv.reparameterize: the size argument is overwritten on entry.
reparameterize(encoder_out, size) ==
    Bind(encoder_out, LAMBDA mean_logit :
    Bind(Slice(mean_logit, MeanColumns(Cols(mean_logit))), LAMBDA mean :
    Bind(Slice(mean_logit, StdColumns(Cols(mean_logit))), LAMBDA pre :
    Bind(Tensor(pre.shape, [n \in 1..Rows(pre) |-> [k \in 1..Cols(pre) |->
                                Softplus(pre.data[n][k])]]), LAMBDA std :
    Normal(mean, std)))))

\* The generator's stream of standard-normal draws for a seed.
Noise(seed, pos) == ((seed + pos) % 3) - 1

\* dist.rsample((sample_size,)): sample_size x N x Z draws loc + scale * eps,
\* taken from the generator in row-major order starting at rng.pos.
rsample(dist, sample_size, rng) ==
    Tensor(<<sample_size, Rows(dist.loc), Cols(dist.loc)>>,
           [s \in 1..sample_size |-> [n \in 1..Rows(dist.loc) |-> [k \in 1..Cols(dist.loc) |->
                [fn |-> "loc+scale*eps", loc |-> dist.loc.data[n][k],
                 scale |-> dist.scale.data[n][k],
                 eps |-> Noise(rng.seed, rng.pos
                               + ((s - 1) * Rows(dist.loc) + (n - 1)) * Cols(dist.loc)
                               + (k - 1))]]]])

\* t[0]
Index0(t) == Tensor(Tail(t.shape), t.data[1])

\* torch.zeros(shape), torch.ones(shape): a 2-dim tensor filled with v.
Full(shape, v) ==
    Tensor(shape, [n \in 1..shape[1] |-> [k \in 1..shape[2] |-> NumOf(v)]])

\* dist.log_prob(value), elementwise, for a 2-dim value.
log_prob(dist, value) ==
    Tensor(value.shape,
           [n \in 1..Rows(value) |-> [k \in 1..Cols(value) |->
                [fn |-> "log_prob", loc |-> dist.loc.data[n][k],
                 scale |-> dist.scale.data[n][k], value |-> value.data[n][k]]]])

\* torch.distributions.kl.kl_divergence(p, q), elementwise.
kl_divergence(p, q) ==
    Tensor(p.loc.shape,
           [n \in 1..Rows(p.loc) |-> [k \in 1..Cols(p.loc) |->
                [fn |-> "kl_normal_normal", p_loc |-> p.loc.data[n][k],
                 p_scale |-> p.scale.data[n][k], q_loc |-> q.loc.data[n][k],
                 q_scale |-> q.scale.data[n][k]]]])

\* t.sum(-1) of a 2-dim tensor: the last dimension goes.
SumLast(t) ==
    Tensor(SubSeq(t.shape, 1, Len(t.shape) - 1),
           [n \in 1..Rows(t) |-> [fn |-> "sum", args |-> t.data[n]]])

\* a - b, elementwise, of two 1-dim tensors.
Sub(a, b) ==
    Tensor(a.shape,
           [n \in 1..a.shape[1] |-> [fn |-> "sub", left |-> a.data[n], right |-> b.data[n]]])

\* t.mean(0): the first dimension goes.
Mean0(t) == Tensor(Tail(t.shape), [fn |-> "mean", args |-> t.data])

\* Z.std((0, 1)).cpu().data.mean(): a 0-dim tensor.
StdAll(t) == [set |-> TRUE, shape |-> <<>>, data |-> [fn |-> "std", args |-> t.data]]

\* A variant of ZerosScalar: a placeholder that is not zero.
OnesScalar == Tensor(<<>>, NumOf(1))

\* torch.zeros([])
ZerosScalar == Tensor(<<>>, NumOf(0))

(***************************************************************************)
(* GCNConv.forward.  The result holds the instance after the call (conv),  *)
(* the generator after the call (rng) and what the call returns or raises. *)
(***************************************************************************)
\* A variant of Posterior: the distribution of an earlier call is kept when
\* its shape fits.
StalePosterior(conv, out) ==
    IF conv.dist.set /\ conv.dist.loc.shape = <<Rows(out), SplitSize(Cols(out))>>
    THEN conv.dist
    ELSE reparameterize(out, conv.out_channels)

\* self.dist, _ = self.reparameterize(encoder_out=out, size=self.out_channels)
Posterior(conv, out) == reparameterize(out, conv.out_channels)

\* A variant of Returned: the sample is returned (the commented-out lines
\* 113-114), here with unit scale: mean + eps.
ReturnedSample(out, Z) ==
    Tensor(Z.shape, [n \in 1..Rows(Z) |-> [k \in 1..Cols(Z) |->
                        NAdd(Z.data[n][k].loc, NumOf(Z.data[n][k].eps))]])

\* The first element of the returned tuple: out, which the commented-out
\* lines would have replaced by the sample.
Returned(out, Z) == out

\* Lines 90-94: the prior is built when prior_mode is "Gaussian"; otherwise
\* self.feature_prior stays what it was.
FeaturePrior(conv, Z) ==
    IF conv.prior_mode = "Gaussian"
    THEN Normal(Full(Z.shape, 0), Full(Z.shape, 1))
    ELSE conv.feature_prior

\* Lines 97-109: the closed form, or the estimate from the sample.
Ixz(conv, dist, feature_prior, Z) ==
    IF conv.reparam_mode = "diag" /\ conv.prior_mode = "Gaussian"
    THEN Bind(kl_divergence(dist, feature_prior), LAMBDA kl : SumLast(kl))
    ELSE Bind(log_prob(dist, Z), LAMBDA lp :
         Bind(SumLast(lp), LAMBDA Z_logit :
         Bind(log_prob(feature_prior, Z), LAMBDA pp :
         Bind(SumLast(pp), LAMBDA prior_logit :
         Bind(Sub(Z_logit, prior_logit), LAMBDA diff :
         Mean0(diff))))))

GCNConv_forward(conv, x, edge_index, edge_weight, rng) ==
    Bind(SuperForward(conv, x, edge_index, edge_weight), LAMBDA out :
    Bind(Posterior(conv, out), LAMBDA dist :
    Bind(rsample(dist, conv.sample_size, rng), LAMBDA samples :
    Bind(Index0(samples), LAMBDA Z :
    Bind([rng EXCEPT !.pos = @ + samples.shape[1] * samples.shape[2] * samples.shape[3]],
         LAMBDA rng2 :
    Bind(FeaturePrior(conv, Z), LAMBDA feature_prior :
    IF ~feature_prior.set
    THEN [status |-> "AttributeError", rng |-> rng2,
          conv |-> [conv EXCEPT !.dist = dist]]
    ELSE [status |-> "ok", rng |-> rng2,
          conv |-> [conv EXCEPT !.dist = dist, !.feature_prior = feature_prior,
                                !.Z_std = StdAll(Z)],
          out |-> Returned(out, Z), ixz |-> Ixz(conv, dist, feature_prior, Z),
          structure_kl_loss |-> ZerosScalar]))))))

(***************************************************************************)
(* GIBGCN.                                                                 *)
(***************************************************************************)
\* A variant of LayerPriorMode: the model's prior_mode is handed to the layers.
HandedPriorMode(a) == a.prior_mode

\* The prior_mode each layer is built with: GIBGCN.__init__ passes none, so
\* GCNConv.__init__'s default applies.
LayerPriorMode(a) == "Gaussian"

\* GIBGCN.__init__.  a: the constructor's arguments.
GIBGCN_init(a) ==
    [num_features |-> a.num_features, num_classes |-> a.num_classes,
     reparam_mode |-> a.reparam_mode, prior_mode |-> a.prior_mode,
     latent_size |-> a.latent_size, sample_size |-> a.sample_size,
     struct_dropout_mode |-> a.struct_dropout_mode, dropout |-> a.dropout,
     with_relu |-> a.with_relu, val_use_mean |-> a.val_use_mean,
     reparam_all_layers |-> a.reparam_all_layers, normalize |-> a.normalize,
     reparam_layers |-> <<>>,
     conv1 |-> GCNConv_init(
        [in_channels |-> a.num_features, out_channels |-> a.latent_size,
         improved |-> FALSE, cached |-> FALSE, bias |-> TRUE,
         normalize |-> a.normalize, reparam_mode |-> a.reparam_mode,
         prior_mode |-> LayerPriorMode(a), sample_size |-> a.sample_size,
         val_use_mean |-> a.val_use_mean]),
     conv2 |-> GCNConv_init(
        [in_channels |-> a.latent_size, out_channels |-> a.num_classes,
         improved |-> FALSE, cached |-> FALSE, bias |-> TRUE,
         normalize |-> a.normalize, reparam_mode |-> a.reparam_mode,
         prior_mode |-> LayerPriorMode(a), sample_size |-> a.sample_size,
         val_use_mean |-> a.val_use_mean])]

\* out_dict = {"latent_out": [], "ixz_list": [], "structure_kl_list": []}
EmptyOutDict == [latent_out |-> <<>>, ixz_list |-> <<>>, structure_kl_list |-> <<>>]

\* A variant of Plus: the item replaces the list.
PlusReplaces(list, item) == <<item>>

\* out_dict[key] = out_dict[key] + [item]
Plus(list, item) == list \o <<item>>

Record(out_dict, r) ==
    [latent_out |-> Plus(out_dict.latent_out, r.out),
     ixz_list |-> Plus(out_dict.ixz_list, r.ixz),
     structure_kl_list |-> Plus(out_dict.structure_kl_list, r.structure_kl_loss)]

\* GIBGCN.forward.  An exception of a layer ends the call.
GIBGCN_forward(m, data, save_latent, rng) ==
    Bind(GCNConv_forward(m.conv1, data.x, data.edge_index, data.edge_attr, rng), LAMBDA r1 :
    IF r1.status # "ok"
    THEN [status |-> r1.status, rng |-> r1.rng, model |-> [m EXCEPT !.conv1 = r1.conv]]
    ELSE
    Bind(Record(EmptyOutDict, r1), LAMBDA d1 :
    Bind(GCNConv_forward(m.conv2, r1.out, data.edge_index, data.edge_attr, r1.rng), LAMBDA r2 :
    IF r2.status # "ok"
    THEN [status |-> r2.status, rng |-> r2.rng,
          model |-> [m EXCEPT !.conv1 = r1.conv, !.conv2 = r2.conv]]
    ELSE [status |-> "ok", rng |-> r2.rng,
          model |-> [m EXCEPT !.conv1 = r1.conv, !.conv2 = r2.conv],
          x |-> r2.out, out_dict |-> Record(d1, r2)])))

(***************************************************************************)
(* Inputs.                                                                 *)
(***************************************************************************)
\* Input features per node (2, as in the 4-node example).
NumFeatures == 2

\* Graphs of one node and of the bound.
NodeCounts == {1, MaxNodes}

ChannelCounts == 1..MaxChannels

\* sample_size: 1 and the bound.
SampleSizes == {1, MaxSample}

Seeds == {0, 1}

ReparamModes == {"None", "diag"}

PriorModes == {"Gaussian", "Mixture"}

NoWeight == [none |-> TRUE, w |-> <<>>]

\* Node features: N x F integers turned into numbers.
Features(N, F) ==
    Tensor(<<N, F>>, [n \in 1..N |-> [f \in 1..F |-> NumOf(n + f - 1)]])

\* A directed ring over N nodes (a self loop when N = 1) and a directed path.
Ring(N) == [k \in 1..N |-> <<k, (k % N) + 1>>]

Path(N) == [k \in 1..(N - 1) |-> <<k, k + 1>>]

\* The weighted ring (edge k has weight k + 1) and the path without weights.
Graphs(N) ==
    { [edge_index |-> Ring(N), edge_attr |-> [none |-> FALSE, w |-> [k \in 1..N |-> k + 1]]],
      [edge_index |-> Path(N), edge_attr |-> NoWeight] }

Datas(F) ==
    UNION { { [x |-> Features(N, F), edge_index |-> g.edge_index, edge_attr |-> g.edge_attr]
              : g \in Graphs(N) } : N \in NodeCounts }

LayerArgs ==
    [in_channels : {NumFeatures}, out_channels : ChannelCounts, improved : {FALSE},
     cached : {FALSE}, bias : BOOLEAN, normalize : BOOLEAN, reparam_mode : ReparamModes,
     prior_mode : PriorModes, sample_size : SampleSizes, val_use_mean : {TRUE}]

\* The arguments of GIBGCN that its body stores and never reads again, at their
\* defaults (0.6 of struct_dropout_mode as 6).
InertDefaults ==
    [prior_mode |-> "None", struct_dropout_mode |-> <<"standard", 6>>, dropout |-> TRUE,
     with_relu |-> TRUE, val_use_mean |-> TRUE, reparam_all_layers |-> TRUE]

\* The same arguments, all changed.
InertChanged ==
    [prior_mode |-> "Mixture", struct_dropout_mode |-> <<"Nsampling", 3>>, dropout |-> FALSE,
     with_relu |-> FALSE, val_use_mean |-> FALSE, reparam_all_layers |-> FALSE]

InertChoices ==
    {InertDefaults, InertChanged, [InertChanged EXCEPT !.prior_mode = "Gaussian"]}

\* num_classes is MaxChannels; latent_size varies.
ModelArgs ==
    { [num_features |-> NumFeatures, num_classes |-> MaxChannels, latent_size |-> l,
       reparam_mode |-> rm, sample_size |-> s, normalize |-> nz] @@ i
      : l \in ChannelCounts, rm \in ReparamModes,
        s \in SampleSizes, nz \in BOOLEAN, i \in InertChoices }

(***************************************************************************)
(* The state machine.  layer: a GCNConv used on its own; model: a GIBGCN;  *)
(* one of the two is constructed.  call: the arguments of the last forward *)
(* call, the parameters before it and whether the instance had been used   *)
(* before it; ret: what it returned or raised.                             *)
(***************************************************************************)
Absent == [constructed |-> FALSE]

NoCall == [target |-> "none"]

IsLayer == "weight" \in DOMAIN layer

IsModel == "conv1" \in DOMAIN model

Init ==
    /\ \/ \E a \in LayerArgs : layer = GCNConv_init(a) /\ model = Absent
       \/ \E a \in ModelArgs : model = GIBGCN_init(a) /\ layer = Absent
    /\ call = NoCall
    /\ ret = [status |-> "none"]

Result(r) ==
    IF r.status = "ok"
    THEN [status |-> "ok", out |-> r.out, ixz |-> r.ixz,
          structure_kl_loss |-> r.structure_kl_loss]
    ELSE [status |-> r.status]

ModelResult(r) ==
    IF r.status = "ok"
    THEN [status |-> "ok", x |-> r.x, out_dict |-> r.out_dict]
    ELSE [status |-> r.status]

\* layer(x, edge_index, edge_weight) with the generator seeded to seed.
LayerForward(data, seed) ==
    /\ IsLayer
    /\ \E r \in {GCNConv_forward(layer, data.x, data.edge_index, data.edge_attr,
                                 [seed |-> seed, pos |-> 0])} :
           /\ layer' = r.conv
           /\ ret' = Result(r)
    /\ call' = [target |-> "layer", data |-> data, seed |-> seed,
                used |-> layer.dist.set, weight |-> layer.weight, bias |-> layer.bias]
    /\ UNCHANGED model

\* model(data, save_latent) with the generator seeded to seed.
ModelForward(data, save_latent, seed) ==
    /\ IsModel
    /\ \E r \in {GIBGCN_forward(model, data, save_latent, [seed |-> seed, pos |-> 0])} :
           /\ model' = r.model
           /\ ret' = ModelResult(r)
    /\ call' = [target |-> "model", data |-> data, save_latent |-> save_latent, seed |-> seed,
                used |-> model.conv1.dist.set,
                weight |-> <<model.conv1.weight, model.conv2.weight>>,
                bias |-> <<model.conv1.bias, model.conv2.bias>>]
    /\ UNCHANGED layer

Next ==
    \/ \E data \in Datas(NumFeatures), seed \in Seeds : LayerForward(data, seed)
    \/ \E data \in Datas(NumFeatures), save_latent \in BOOLEAN, seed \in Seeds :
          ModelForward(data, save_latent, seed)

Spec == Init /\ [][Next]_vars

(***************************************************************************)
(* The claims.                                                             *)
(***************************************************************************)
Rng0(seed) == [seed |-> seed, pos |-> 0]

\* The instance with nothing left on it by a call.
Fresh(conv) == [conv EXCEPT !.dist = Unset, !.feature_prior = Unset, !.Z_std = Unset]

FreshModel(m) == [m EXCEPT !.conv1 = Fresh(@), !.conv2 = Fresh(@)]

LayerCalled == call.target = "layer"

ModelCalled == call.target = "model"

LayerOk == LayerCalled /\ ret.status = "ok"

ModelOk == ModelCalled /\ ret.status = "ok"

\* The number of nodes of the last call's graph.
Nodes == Rows(call.data.x)

\* The last call's inputs given to the layer conv, the generator seeded to seed.
LayerAgain(conv, seed) ==
    GCNConv_forward(conv, call.data.x, call.data.edge_index, call.data.edge_attr, Rng0(seed))

\* The last call's inputs given to the model m.
ModelAgain(m, save_latent, seed) == GIBGCN_forward(m, call.data, save_latent, Rng0(seed))

\* C1 (as claimed): the ixz a layer returns has one scalar per node, shape (N,),
\* in the closed-form branch and in the Monte-Carlo branch, and so have both
\* entries of the model's ixz_list.
C1_IxzOnePerNode ==
    /\ LayerOk => ret.ixz.shape = <<Nodes>>
    /\ ModelOk => \A i \in 1..2 : ret.out_dict.ixz_list[i].shape = <<Nodes>>

\* C2: the record of a model call holds exactly the three lists, each of length
\* 2: entry 1 is what conv1 returns on the input, entry 2 what conv2 returns on
\* conv1's output with the same edge_index and edge_weight, whatever calls came
\* before; the final output is latent_out[1] of Python, the second entry.
C2_RecordOfTwo ==
    ModelOk =>
        /\ DOMAIN ret.out_dict = {"latent_out", "ixz_list", "structure_kl_list"}
        /\ Len(ret.out_dict.latent_out) = 2
        /\ Len(ret.out_dict.ixz_list) = 2
        /\ Len(ret.out_dict.structure_kl_list) = 2
        /\ ret.x = ret.out_dict.latent_out[2]
        /\ \E r1 \in {LayerAgain(Fresh(model.conv1), call.seed)} :
            /\ r1.status = "ok"
            /\ ret.out_dict.latent_out[1] = r1.out
            /\ ret.out_dict.ixz_list[1] = r1.ixz
            /\ ret.out_dict.structure_kl_list[1] = r1.structure_kl_loss
            /\ \E r2 \in {GCNConv_forward(Fresh(model.conv2), ret.out_dict.latent_out[1],
                                          call.data.edge_index, call.data.edge_attr, r1.rng)} :
                /\ r2.status = "ok"
                /\ ret.out_dict.latent_out[2] = r2.out
                /\ ret.out_dict.ixz_list[2] = r2.ixz
                /\ ret.out_dict.structure_kl_list[2] = r2.structure_kl_loss

\* A model call that returned, on a model that had been called before.
C2_Witness == ModelOk /\ call.used /\ Nodes = MaxNodes /\ model.reparam_mode = "None"

\* C3: what a forward call returns (or raises) is what the same call returns on
\* the instance with nothing left on it by earlier calls, and the call leaves
\* weight and bias as they were.
C3_Deterministic ==
    /\ LayerCalled =>
        /\ ret = Result(LayerAgain(Fresh(layer), call.seed))
        /\ layer.weight = call.weight
        /\ layer.bias = call.bias
    /\ ModelCalled =>
        /\ ret = ModelResult(ModelAgain(FreshModel(model), call.save_latent, call.seed))
        /\ <<model.conv1.weight, model.conv2.weight>> = call.weight
        /\ <<model.conv1.bias, model.conv2.bias>> = call.bias

\* A layer call in the Monte-Carlo branch on an instance that an earlier call
\* had left its state on.
C3_Witness == LayerOk /\ call.used /\ layer.reparam_mode = "None" /\ layer.sample_size = MaxSample

\* C4 (as claimed): a layer with a non-Gaussian prior_mode and a non-"diag"
\* reparam_mode returns from every forward call.
C4_SilentFallback ==
    (LayerCalled /\ layer.prior_mode # "Gaussian" /\ layer.reparam_mode # "diag")
        => ret.status = "ok"

\* C5: the structural-KL term a layer returns is the 0-dim zero, and both
\* entries of the model's structure_kl_list are.
C5_StructureKlZero ==
    /\ LayerOk => ret.structure_kl_loss = [shape |-> <<>>, data |-> NumOf(0)]
    /\ ModelOk => \A i \in 1..Len(ret.out_dict.structure_kl_list) :
                    ret.out_dict.structure_kl_list[i] = [shape |-> <<>>, data |-> NumOf(0)]

\* A closed-form layer call that returned, on a used instance.
C5_Witness == LayerOk /\ call.used /\ layer.reparam_mode = "diag"

ArgsWith(m, i) ==
    [num_features |-> m.num_features, num_classes |-> m.num_classes,
     latent_size |-> m.latent_size, reparam_mode |-> m.reparam_mode,
     sample_size |-> m.sample_size, normalize |-> m.normalize] @@ i

DistinctColumns ==
    \A i, j \in 1..Cols(ret.out) :
        i # j => \E n \in 1..Nodes : ret.out.data[n][i] # ret.out.data[n][j]

\* Output column j is a column of the mean of self.dist.
MeanUses(j) ==
    \E k \in 1..Cols(layer.dist.loc) :
        \A n \in 1..Nodes : layer.dist.loc.data[n][k] = ret.out.data[n][j]

\* Output column j is the pre-activation of a column of the std of self.dist.
StdUses(j) ==
    \E k \in 1..Cols(layer.dist.scale) :
        \A n \in 1..Nodes : layer.dist.scale.data[n][k].arg = ret.out.data[n][j]

\* C8 (as claimed): the mean is the first columns; for even out_channels every
\* column is in exactly one half; for odd out_channels the halves have unequal
\* widths and no column is in both.
C8_SplitAsClaimed ==
    (LayerOk /\ DistinctColumns) =>
        /\ \A j \in 1..layer.out_channels : MeanUses(j) <=> j <= Cols(layer.dist.loc)
        /\ layer.out_channels % 2 = 0 =>
             \A j \in 1..layer.out_channels : MeanUses(j) # StdUses(j)
        /\ layer.out_channels % 2 = 1 =>
             /\ Cols(layer.dist.loc) # Cols(layer.dist.scale)
             /\ \A j \in 1..layer.out_channels : ~(MeanUses(j) /\ StdUses(j))

\* C8 (amended): the mean is the first ceil(out_channels/2) columns and the std
\* comes from the last ceil(out_channels/2) columns; for even out_channels every
\* column is in exactly one half; for odd out_channels both halves have width
\* ceil(out_channels/2) and share exactly the middle column.
C8_SplitBothRoundedUp ==
    (LayerOk /\ DistinctColumns) =>
        LET C == layer.out_channels
            half == (C + 1) \div 2
        IN  /\ Cols(layer.dist.loc) = half
            /\ Cols(layer.dist.scale) = half
            /\ \A j \in 1..C : MeanUses(j) <=> j <= half
            /\ \A j \in 1..C : StdUses(j) <=> j > C - half
            /\ C % 2 = 0 => \A j \in 1..C : MeanUses(j) # StdUses(j)
            /\ C % 2 = 1 => \A j \in 1..C : (MeanUses(j) /\ StdUses(j)) <=> j = half

\* A call on a layer with an odd out_channels above 1 whose output columns differ.
C8_Witness ==
    /\ LayerOk /\ DistinctColumns /\ layer.out_channels % 2 = 1 /\ layer.out_channels > 1
    /\ Nodes = MaxNodes

\* C9 (as claimed): whatever normalize flag the layer was built with, the
\* inherited forward reads normalize as off and the call returns the sum over
\* the neighbours without degree normalization.
C9_NormalizationOff ==
    LayerOk =>
        /\ layer.normalize = FALSE
        /\ ret.out = SuperForward([layer EXCEPT !.normalize = FALSE], call.data.x,
                                  call.data.edge_index, call.data.edge_attr)

\* C10 (as claimed): the returned output is the aggregation without bias plus
\* the bias once when the layer has one, and without any bias otherwise.
C10_BiasOnce ==
    LayerOk =>
        \E plain \in {SuperForward([layer EXCEPT !.bias = NoBias], call.data.x,
                                   call.data.edge_index, call.data.edge_attr)} :
            ret.out = IF layer.bias.present THEN AddBias(plain, layer.bias.data) ELSE plain

====
